---- MODULE Spec2Model ----
(***************************************************************************)
(* Model of gd/cert/gd_device.py: the ACTS controller that starts a GD     *)
(* backing process per configured device (create / setup), drains its      *)
(* output into a log file on a background thread, and stops it again       *)
(* (destroy / teardown).                                                   *)
(*                                                                         *)
(* One control thread runs create() and destroy(); every statement of      *)
(* setup() and teardown() that touches the process, the signal socket,     *)
(* the logging future or the gRPC channels is one action.  The backing     *)
(* processes and the logging threads run concurrently with it.             *)
(*                                                                         *)
(* Spec, FairSpec   one host-only device, create() then destroy(), the     *)
(*                  worker's output in full                                *)
(* SpecCreate       create() over config lists of several host-only        *)
(*                  devices                                                *)
(* SpecVariants     one device, GdHostOnlyDevice or GdAndroidDevice with   *)
(*                  its pre-flight over adb, reboots included              *)
(* SpecCalls        as SpecVariants with a well-behaved adb, and setup()   *)
(*                  and teardown() also called on the device directly      *)
(* SpecMapping,     tcp_forward_or_die / tcp_reverse_or_die called on a    *)
(* FairMapping      constructed Android device with any retry budget       *)
(* SpecOutput       as Spec, with a backing process that may print before  *)
(*                  it connects to the signal port                         *)
(* SpecDestroy      as SpecCreate, with backing processes that run until   *)
(*                  they are signalled                                     *)
(***************************************************************************)
EXTENDS Integers, Sequences, FiniteSets, TLC

\* ---------------------------------------------------------------- bounds
NumDevices == 2     \* longest config list handed to create()
MaxLines == 2       \* most lines one backing process prints
PipeCap == 1        \* lines the stdout pipe holds before a write blocks
RebootTicks == 2    \* reboot(timeout_minutes): the timeout, in polls that
                    \* sleep
MaxCalls == 1       \* calls of setup() / teardown() made on one device
MaxRetry == 2       \* largest num_retry a caller of tcp_*_or_die passes

\* ------------------------------------------------------- program constants
SIGINT == 2
SIGKILL == 9
FAILED_TO_KILL == -65536
DEFAULT_NUM_RETRY == 1      \* tcp_forward_or_die(..., num_retry=1)

Devs == 1..NumDevices
ExitCodes == {0, 1}         \* status of a process that exits by itself

grpc_port(d) == 3 * (d - 1) + 1
grpc_root_server_port(d) == 3 * (d - 1) + 2
signal_port(d) == 3 * (d - 1) + 3
Ports == 1..(3 * NumDevices)

VARIABLES
    configs,                  \* the list handed to create(): device ids
    busy,                     \* ports held by foreign processes
    serial_number,            \* per device: the config has a serial_number
                              \* (a GdAndroidDevice is built for it)
    adb,                      \* per device: the Android device behind adb
    stack,                    \* calls open inside GdAndroidDevice.setup:
                              \* return address and argument of each
    num_retry,                \* local of tcp_forward_or_die and of
                              \* tcp_reverse_or_die
    error_or_port,            \* local of the same: "none" outside them
    budget,                   \* num_retry as the caller of them passed it
    rb,                       \* locals of reboot / wait_for_boot_completion
    op,                       \* "idle" | "create" | "destroy", or "setup" |
                              \* "teardown" called on a device directly
    cur,                      \* index of the loop over configs / devices
    pc,                       \* statement of setup() / teardown() reached
    devices,                  \* get_instances_with_configs: devices
    createResult,             \* "none" | "ok" | "raised"
    startError,               \* what setup() raised, "none" if nothing
    destroyed,                \* destroy(devices) returned
    backing_process,          \* self.backing_process: index in procs, 0 unset
    signal_socket,            \* "none" | "listening" | "closed"
    backlog,                  \* connections waiting on the signal socket
    logging_future,           \* "unset" | "running" | "done" | "error"
    logging_executor,         \* "unset" | "active" | "shutdown"
    logging_stream,           \* the process whose stdout the loop iterates
    grpc_channel,             \* "unset" | "open" | "closed"
    grpc_root_server_channel, \* "unset" | "open" | "closed"
    procs,                    \* every process spawned so far
    log,                      \* backing_process_log_path: the file's content
                              \* (at first empty, or left by an earlier run)
    log_buffer,               \* lines written to the open file object that
                              \* have not reached the file yet
    stop_signal,              \* local of teardown()
    return_code,              \* local of teardown()
    errors,                   \* what logging.error / logging.exception got
    hist,                     \* per device: statements executed so far
    tdResult                  \* per device: "none" | "returned" | "raised"

vars == <<configs, busy, serial_number, adb, stack, num_retry, error_or_port,
          budget,
          rb, op, cur, pc, devices, createResult, startError, destroyed,
          backing_process, signal_socket, backlog, logging_future,
          logging_executor, logging_stream, grpc_channel,
          grpc_root_server_channel, procs,
          log, log_buffer, stop_signal, return_code, errors, hist,
          tdResult>>

ctl == <<op, cur, pc, devices, createResult, startError, destroyed>>
obj == <<backing_process, logging_future, logging_executor, logging_stream,
         grpc_channel, grpc_root_server_channel>>
sockv == <<signal_socket, backlog>>
tdloc == <<stop_signal, return_code>>
logv == <<log, log_buffer>>
cfg == <<configs, busy, serial_number>>
fwd == <<num_retry, error_or_port, budget>>
adbv == <<adb, stack, fwd, rb>>
env == <<cfg, adbv>>
call == <<op, cur, devices, createResult, startError, destroyed>>
base == <<obj, sockv, procs, logv, tdloc, errors, tdResult>>

\* ------------------------------------------------------------- helpers
Dev == configs[cur]                       \* device whose setup() runs
TDev == devices[cur]                      \* device whose teardown() runs
Proc(d) == procs[backing_process[d]]
Stream(d) == procs[logging_stream[d]]     \* self.backing_process.stdout, as
                                          \* the loop took it when it began
SetupRuns == op \in {"create", "setup", "mapping"}
TeardownRuns == op \in {"destroy", "teardown"}
Note(d, e) == [hist EXCEPT ![d] = Append(@, e)]
LogError(d, e) == [errors EXCEPT ![d] = @ \cup {e}]
Line(p, k) == <<p, k>>

\* ports on which a signal socket of this program is bound
Listening ==
    {signal_port(d) :
       d \in {e \in Devs : signal_socket[e] \in {"bound", "listening"}}}

\* ports on which a backing process run on the host serves gRPC: it does
\* from the moment it has connected to the signal port
HeldByWorkers ==
    UNION {{grpc_port(procs[p].owner), grpc_root_server_port(procs[p].owner)} :
             p \in {q \in 1..Len(procs) : /\ procs[q].alive
                                          /\ procs[q].conn = "yes"
                                          /\ ~serial_number[procs[q].owner]}}

\* cert.os_utils.make_ports_available: every port can be bound
make_ports_available(ports) ==
    ports \cap (busy \cup Listening \cup HeldByWorkers) = {}

\* the setup() that get_instances_with_configs calls first for device d
FirstSetupPc(d) == IF serial_number[d] THEN "ad_verity" ELSE "ho_ports"

\* what adb shows of a device: reachability, the partition.*.verified
\* properties that are set, port mappings, pushed files
Mappings == {"grpc_port", "grpc_root_server_port", "signal_port"}
NoAdb == [state |-> "none", verity |-> {}, maps |-> {}, files |-> {}]
AdbStates(android) ==
    IF android
      THEN {[state |-> "online", verity |-> v, maps |-> m, files |-> {}] :
              v \in SUBSET {"system", "vendor"}, m \in {{}, Mappings}}
      ELSE {NoAdb}
NoReboot == [clock |-> 0, left |-> 0, ended |-> "none", completed |-> "none",
             ignored |-> 0]

\* cert.os_utils.is_subprocess_alive: the process has not exited
is_subprocess_alive(p) == procs[p].alive

\* ---------------------------------------------------------------- Init
InitState(cfgs, serials) ==
    /\ configs \in cfgs
    /\ serial_number \in serials
    /\ adb \in {a \in [Devs -> AdbStates(TRUE) \cup AdbStates(FALSE)] :
                  \A d \in Devs : a[d] \in AdbStates(serial_number[d])}
    /\ stack = <<>> /\ num_retry = 0 /\ error_or_port = "none"
    /\ budget = 0
    /\ rb = NoReboot
    /\ busy \in {{}} \cup {{q} : q \in Ports}
    /\ op = "idle" /\ cur = 0 /\ pc = "none"
    /\ devices = <<>> /\ createResult = "none" /\ startError = "none"
    /\ destroyed = FALSE
    /\ backing_process = [d \in Devs |-> 0]
    /\ signal_socket = [d \in Devs |-> "none"]
    /\ backlog = [d \in Devs |-> {}]
    /\ logging_future = [d \in Devs |-> "unset"]
    /\ logging_executor = [d \in Devs |-> "unset"]
    /\ logging_stream = [d \in Devs |-> 0]
    /\ grpc_channel = [d \in Devs |-> "unset"]
    /\ grpc_root_server_channel = [d \in Devs |-> "unset"]
    /\ procs = <<>>
    /\ log \in {[d \in Devs |-> old] : old \in {<<>>, <<Line(0, 0)>>}}
    /\ log_buffer = [d \in Devs |-> <<>>]
    /\ stop_signal = 0 /\ return_code = 0
    /\ errors = [d \in Devs |-> {}]
    /\ hist = [d \in Devs |-> <<>>]
    /\ tdResult = [d \in Devs |-> "none"]

HostOnly == [d \in Devs |-> FALSE]

Init == InitState({<<1>>}, {HostOnly})

\* ------------------------------------------------------------ create()
\* An exception leaving setup() passes through get_instances_with_configs
\* and create() to the caller; the local list `devices` is dropped.
RaiseFromSetup(kind) ==
    /\ op' = "idle" /\ pc' = "none"
    /\ createResult' = IF op \in {"setup", "mapping"} THEN createResult
                                                      ELSE "raised"
    /\ startError' = kind
    /\ UNCHANGED <<cur, devices, destroyed>>

CallCreate ==
    /\ op = "idle" /\ createResult = "none"
    /\ IF configs = <<>>
         THEN RaiseFromSetup("ConfigurationEmpty")
         ELSE /\ op' = "create" /\ cur' = 1
              /\ pc' = FirstSetupPc(configs[1])
              /\ UNCHANGED <<devices, createResult, startError, destroyed>>
    /\ UNCHANGED <<obj, sockv, procs, logv, tdloc, errors, hist, tdResult, env>>

\* fault variant: the gRPC ports are not checked
HostOnlySetupPortsUnchecked ==
    /\ SetupRuns /\ pc = "ho_ports"
    /\ pc' = "sig_port"
    /\ hist' = [hist EXCEPT ![configs[cur]] = Append(@, "grpc_ports_ok")]
    /\ UNCHANGED <<op, cur, devices, createResult, startError, destroyed>>
    /\ UNCHANGED <<obj, sockv, procs, logv, tdloc, errors, tdResult, env>>

\* GdHostOnlyDevice.setup: the two gRPC ports must be free
HostOnlySetupPorts ==
    /\ SetupRuns /\ pc = "ho_ports"
    /\ IF make_ports_available({grpc_port(Dev), grpc_root_server_port(Dev)})
         THEN /\ pc' = "sig_port"
              /\ hist' = Note(Dev, "grpc_ports_ok")
              /\ UNCHANGED <<op, cur, devices, createResult, startError,
                             destroyed>>
         ELSE /\ RaiseFromSetup("PortUnavailable")
              /\ hist' = Note(Dev, "raise")
    /\ UNCHANGED <<obj, sockv, procs, logv, tdloc, errors, tdResult, env>>

\* GdDeviceBase.setup: the signal port must be free
SetupSignalPort ==
    /\ SetupRuns /\ pc = "sig_port"
    /\ IF make_ports_available({signal_port(Dev)})
         THEN /\ pc' = "bind"
              /\ hist' = Note(Dev, "signal_port_ok")
              /\ UNCHANGED <<op, cur, devices, createResult, startError,
                             destroyed>>
         ELSE /\ RaiseFromSetup("PortUnavailable")
              /\ hist' = Note(Dev, "raise")
    /\ UNCHANGED <<obj, sockv, procs, logv, tdloc, errors, tdResult, env>>

\* fault variant: the socket is bound but listen() is left out
SetupBindWithoutListen ==
    /\ SetupRuns /\ pc = "bind"
    /\ signal_socket' = [signal_socket EXCEPT ![configs[cur]] = "bound"]
    /\ hist' = [hist EXCEPT ![configs[cur]] = Append(@, "bind")]
    /\ pc' = "spawn"
    /\ UNCHANGED <<op, cur, devices, createResult, startError, destroyed,
                   backlog, obj, procs, logv, tdloc, errors, tdResult, env>>

\* with socket.socket(...) as signal_socket: setsockopt, bind, listen(1)
SetupBindListen ==
    /\ SetupRuns /\ pc = "bind"
    /\ signal_socket' = [signal_socket EXCEPT ![Dev] = "listening"]
    /\ hist' = Note(Dev, "listen")
    /\ pc' = "spawn"
    /\ UNCHANGED <<op, cur, devices, createResult, startError, destroyed,
                   backlog, obj, procs, logv, tdloc, errors, tdResult, env>>

NewProc(d) ==
    [owner |-> d, alive |-> TRUE, code |-> 0, pending |-> {},
     conn |-> "no", out |-> 0, rd |-> 0, open |-> TRUE, pre |-> 0]

\* self.backing_process = subprocess.Popen(...): the process runs
SetupSpawn ==
    /\ SetupRuns /\ pc = "spawn"
    /\ procs' = Append(procs, NewProc(Dev))
    /\ backing_process' = [backing_process EXCEPT ![Dev] = Len(procs) + 1]
    /\ hist' = Note(Dev, "spawn")
    /\ pc' = "probe"
    /\ UNCHANGED <<op, cur, devices, createResult, startError, destroyed,
                   sockv, logging_future, logging_executor, logging_stream,
                   grpc_channel, grpc_root_server_channel, logv, tdloc,
                   errors, tdResult, env>>

\* subprocess.Popen raises (the binary cannot be executed): the with block
\* closes the socket and the exception leaves setup()
SetupSpawnFails ==
    /\ SetupRuns /\ pc = "spawn"
    /\ signal_socket' = [signal_socket EXCEPT ![Dev] = "closed"]
    /\ hist' = Note(Dev, "raise")
    /\ RaiseFromSetup("SpawnFailed")
    /\ UNCHANGED <<backlog, obj, procs, logv, tdloc, errors, tdResult, env>>

\* fault variant: the socket is not closed when the probe fails
SetupProbeLeaksSocket ==
    /\ SetupRuns /\ pc = "probe"
    /\ IF procs[backing_process[configs[cur]]].alive
         THEN /\ pc' = "accept"
              /\ hist' = [hist EXCEPT ![configs[cur]] =
                            Append(@, "probe_alive")]
              /\ UNCHANGED <<op, cur, devices, createResult, startError,
                             destroyed>>
         ELSE /\ hist' = [hist EXCEPT ![configs[cur]] = Append(@, "raise")]
              /\ RaiseFromSetup("ImmediateExit")
    /\ UNCHANGED <<sockv, obj, procs, logv, tdloc, errors, tdResult, env>>

\* asserts.assert_true(is_subprocess_alive(self.backing_process), ...)
SetupProbe ==
    /\ SetupRuns /\ pc = "probe"
    /\ IF is_subprocess_alive(backing_process[Dev])
         THEN /\ pc' = "accept"
              /\ hist' = Note(Dev, "probe_alive")
              /\ UNCHANGED <<op, cur, devices, createResult, startError,
                             destroyed, signal_socket>>
         ELSE /\ signal_socket' = [signal_socket EXCEPT ![Dev] = "closed"]
              /\ hist' = Note(Dev, "raise")
              /\ RaiseFromSetup("ImmediateExit")
    /\ UNCHANGED <<backlog, obj, procs, logv, tdloc, errors, tdResult, env>>

\* fault variant: a non-blocking accept() that goes on without a connection
SetupAcceptNoWait ==
    /\ SetupRuns /\ pc = "accept"
    /\ backlog' = [backlog EXCEPT ![configs[cur]] = {}]
    /\ signal_socket' = [signal_socket EXCEPT ![configs[cur]] = "closed"]
    /\ hist' = [hist EXCEPT ![configs[cur]] = Append(@, "accept")]
    /\ pc' = "submit"
    /\ UNCHANGED <<op, cur, devices, createResult, startError, destroyed,
                   obj, procs, logv, tdloc, errors, tdResult, env>>

\* signal_socket.accept(): blocks until a connection is in the backlog;
\* leaving the with block closes the socket
SetupAccept ==
    /\ SetupRuns /\ pc = "accept"
    /\ backlog[Dev] # {}
    /\ \E c \in backlog[Dev] :
          backlog' = [backlog EXCEPT ![Dev] = @ \ {c}]
    /\ signal_socket' = [signal_socket EXCEPT ![Dev] = "closed"]
    /\ hist' = Note(Dev, "accept")
    /\ pc' = "submit"
    /\ UNCHANGED <<op, cur, devices, createResult, startError, destroyed,
                   obj, procs, logv, tdloc, errors, tdResult, env>>

\* ThreadPoolExecutor(max_workers=1).submit(__backing_process_logging_loop);
\* the loop opens the log file with mode 'w'
SetupSubmitLogging ==
    /\ SetupRuns /\ pc = "submit"
    /\ logging_executor' = [logging_executor EXCEPT ![Dev] = "active"]
    /\ logging_future' = [logging_future EXCEPT ![Dev] = "running"]
    /\ logging_stream' = [logging_stream EXCEPT ![Dev] = backing_process[Dev]]
    /\ log' = [log EXCEPT ![Dev] = <<>>]
    /\ log_buffer' = [log_buffer EXCEPT ![Dev] = <<>>]
    /\ hist' = Note(Dev, "submit")
    /\ pc' = "channels"
    /\ UNCHANGED <<op, cur, devices, createResult, startError, destroyed,
                   backing_process, grpc_channel, grpc_root_server_channel,
                   sockv, procs, tdloc, errors, tdResult, env>>

\* grpc.insecure_channel twice, then the facade stubs; setup() returns
SetupOpenChannels ==
    /\ SetupRuns /\ pc = "channels"
    /\ grpc_root_server_channel' =
          [grpc_root_server_channel EXCEPT ![Dev] = "open"]
    /\ grpc_channel' = [grpc_channel EXCEPT ![Dev] = "open"]
    /\ hist' = Note(Dev, "channels_open")
    /\ pc' = "setup_done"
    /\ UNCHANGED <<op, cur, devices, createResult, startError, destroyed,
                   backing_process, logging_future, logging_executor,
                   logging_stream,
                   sockv, procs, logv, tdloc, errors, tdResult, env>>

\* devices.append(device); next config, or return devices
CreateNext ==
    /\ op = "create" /\ pc = "setup_done"
    /\ devices' = Append(devices, Dev)
    /\ IF cur < Len(configs)
         THEN /\ cur' = cur + 1 /\ pc' = FirstSetupPc(configs[cur + 1])
              /\ UNCHANGED <<op, createResult>>
         ELSE /\ op' = "idle" /\ pc' = "none" /\ createResult' = "ok"
              /\ UNCHANGED cur
    /\ UNCHANGED <<startError, destroyed, obj, sockv, procs, logv, tdloc,
                   errors, hist, tdResult, env>>

\* ----------------------------------------------------------- destroy()
CallDestroy ==
    /\ op = "idle" /\ createResult = "ok" /\ ~destroyed
    /\ op' = "destroy" /\ cur' = 1 /\ pc' = "td_close"
    /\ UNCHANGED <<devices, createResult, startError, destroyed, obj, sockv,
                   procs, logv, tdloc, errors, hist, tdResult, env>>

\* for device in devices: the next device, or destroy() returns
NextDevice ==
    IF cur < Len(devices)
      THEN /\ cur' = cur + 1 /\ pc' = "td_close"
           /\ UNCHANGED <<op, destroyed>>
      ELSE /\ op' = "idle" /\ pc' = "none" /\ destroyed' = TRUE
           /\ UNCHANGED cur

\* device.teardown() returned
DestroyNext ==
    /\ op = "destroy" /\ pc = "td_done"
    /\ NextDevice
    /\ UNCHANGED <<devices, createResult, startError, obj, sockv, procs, logv,
                   tdloc, errors, hist, tdResult, env>>

\* except: logging.exception("Failed to clean up properly ...")
\* fault variant: what teardown() raised ends the loop of destroy()
DestroyCatchPropagates ==
    /\ op = "destroy" /\ pc = "td_raised"
    /\ errors' = [errors EXCEPT ![devices[cur]] = @ \cup {"CleanupFailed"}]
    /\ op' = "idle" /\ pc' = "none" /\ destroyed' = TRUE
    /\ UNCHANGED <<cur, devices, createResult, startError, obj, sockv, procs,
                   logv, tdloc, hist, tdResult, env>>

DestroyCatch ==
    /\ op = "destroy" /\ pc = "td_raised"
    /\ errors' = LogError(TDev, "CleanupFailed")
    /\ NextDevice
    /\ UNCHANGED <<devices, createResult, startError, obj, sockv, procs, logv,
                   tdloc, hist, tdResult, env>>

\* ---------------------------------------------------------- teardown()
\* fault variant: only the main channel is closed
TeardownCloseMainOnly ==
    /\ TeardownRuns /\ pc = "td_close"
    /\ grpc_channel' = [grpc_channel EXCEPT ![devices[cur]] = "closed"]
    /\ hist' = [hist EXCEPT ![devices[cur]] = Append(@, "channels_closed")]
    /\ pc' = "td_sigint"
    /\ UNCHANGED <<op, cur, devices, createResult, startError, destroyed,
                   backing_process, logging_future, logging_executor,
                   logging_stream,
                   grpc_root_server_channel, sockv, procs, logv, tdloc,
                   errors, tdResult, env>>

\* self.grpc_channel.close(); self.grpc_root_server_channel.close()
TeardownCloseChannels ==
    /\ TeardownRuns /\ pc = "td_close"
    /\ grpc_channel' = [grpc_channel EXCEPT ![TDev] = "closed"]
    /\ grpc_root_server_channel' =
          [grpc_root_server_channel EXCEPT ![TDev] = "closed"]
    /\ hist' = Note(TDev, "channels_closed")
    /\ pc' = "td_sigint"
    /\ UNCHANGED <<op, cur, devices, createResult, startError, destroyed,
                   backing_process, logging_future, logging_executor,
                   logging_stream, sockv,
                   procs, logv, tdloc, errors, tdResult, env>>

\* Popen.send_signal: polls first, a process that has exited gets nothing
send_signal(p, sig) ==
    IF procs[p].alive
      THEN [procs EXCEPT ![p].pending = @ \cup {sig}]
      ELSE procs

\* fault variant: a poll() in place of wait(): returns while the process runs
WaitReturnsAnyway(p) == TRUE

\* fault variant: wait() without a timeout
WaitNeverTimesOut(p) == FALSE

\* Popen.wait(timeout=...) returns the status of a process that has exited
WaitReturns(p) == ~procs[p].alive

\* ... and raises TimeoutExpired while the process is still running
WaitTimesOut(p) == procs[p].alive

\* stop_signal = signal.SIGINT; self.backing_process.send_signal(stop_signal)
TeardownInterrupt ==
    /\ TeardownRuns /\ pc = "td_sigint"
    /\ stop_signal' = SIGINT
    /\ procs' = send_signal(backing_process[TDev], SIGINT)
    /\ hist' = Note(TDev, "sigint")
    /\ pc' = "td_wait1"
    /\ UNCHANGED <<op, cur, devices, createResult, startError, destroyed,
                   obj, sockv, logv, return_code, errors, tdResult, env>>

\* fault variant: SIGKILL follows SIGINT whether or not the process exited
TeardownWait1ExitEscalates ==
    /\ TeardownRuns /\ pc = "td_wait1"
    /\ ~procs[backing_process[devices[cur]]].alive
    /\ return_code' = procs[backing_process[devices[cur]]].code
    /\ stop_signal' = SIGKILL
    /\ hist' = [hist EXCEPT ![devices[cur]] = Append(@, "wait1_exit")]
    /\ pc' = "td_kill"
    /\ UNCHANGED <<op, cur, devices, createResult, startError, destroyed,
                   obj, sockv, procs, logv, errors, tdResult, env>>

\* return_code = self.backing_process.wait(timeout=10)
TeardownWait1Exit ==
    /\ TeardownRuns /\ pc = "td_wait1"
    /\ WaitReturns(backing_process[TDev])
    /\ return_code' = Proc(TDev).code
    /\ hist' = Note(TDev, "wait1_exit")
    /\ pc' = "td_check"
    /\ UNCHANGED <<op, cur, devices, createResult, startError, destroyed,
                   obj, sockv, procs, logv, stop_signal, errors, tdResult, env>>

\* fault variant: the escalation leaves stop_signal at SIGINT
TeardownWait1TimeoutKeepsSignal ==
    /\ TeardownRuns /\ pc = "td_wait1"
    /\ procs[backing_process[devices[cur]]].alive
    /\ errors' = [errors EXCEPT ![devices[cur]] = @ \cup {"FailedToInterrupt"}]
    /\ hist' = [hist EXCEPT ![devices[cur]] = Append(@, "wait1_timeout")]
    /\ pc' = "td_kill"
    /\ UNCHANGED <<op, cur, devices, createResult, startError, destroyed,
                   obj, sockv, procs, logv, tdloc, tdResult, env>>

\* except subprocess.TimeoutExpired: logging.error; stop_signal = SIGKILL
TeardownWait1Timeout ==
    /\ TeardownRuns /\ pc = "td_wait1"
    /\ WaitTimesOut(backing_process[TDev])
    /\ errors' = LogError(TDev, "FailedToInterrupt")
    /\ stop_signal' = SIGKILL
    /\ hist' = Note(TDev, "wait1_timeout")
    /\ pc' = "td_kill"
    /\ UNCHANGED <<op, cur, devices, createResult, startError, destroyed,
                   obj, sockv, procs, logv, return_code, tdResult, env>>

\* self.backing_process.kill()
TeardownKill ==
    /\ TeardownRuns /\ pc = "td_kill"
    /\ procs' = send_signal(backing_process[TDev], SIGKILL)
    /\ hist' = Note(TDev, "sigkill")
    /\ pc' = "td_wait2"
    /\ UNCHANGED <<op, cur, devices, createResult, startError, destroyed,
                   obj, sockv, logv, tdloc, errors, tdResult, env>>

\* return_code = self.backing_process.wait(timeout=10), second time
TeardownWait2Exit ==
    /\ TeardownRuns /\ pc = "td_wait2"
    /\ WaitReturns(backing_process[TDev])
    /\ return_code' = Proc(TDev).code
    /\ hist' = Note(TDev, "wait2_exit")
    /\ pc' = "td_check"
    /\ UNCHANGED <<op, cur, devices, createResult, startError, destroyed,
                   obj, sockv, procs, logv, stop_signal, errors, tdResult, env>>

\* except subprocess.TimeoutExpired: "Failed to kill"; return_code = -65536
TeardownWait2Timeout ==
    /\ TeardownRuns /\ pc = "td_wait2"
    /\ WaitTimesOut(backing_process[TDev])
    /\ errors' = LogError(TDev, "FailedToKill")
    /\ return_code' = FAILED_TO_KILL
    /\ hist' = Note(TDev, "wait2_timeout")
    /\ pc' = "td_check"
    /\ UNCHANGED <<op, cur, devices, createResult, startError, destroyed,
                   obj, sockv, procs, logv, stop_signal, tdResult, env>>

\* fault variant: the status is compared with SIGINT whatever was sent
TeardownCheckCodeInterruptOnly ==
    /\ TeardownRuns /\ pc = "td_check"
    /\ errors' = IF return_code \notin {-SIGINT, 0}
                   THEN [errors EXCEPT
                           ![devices[cur]] = @ \cup {"AnomalousExit"}]
                   ELSE errors
    /\ pc' = "td_join"
    /\ UNCHANGED <<op, cur, devices, createResult, startError, destroyed,
                   obj, sockv, procs, logv, tdloc, hist, tdResult, env>>

\* if return_code not in [-stop_signal, 0]: logging.error(...)
TeardownCheckCode ==
    /\ TeardownRuns /\ pc = "td_check"
    /\ errors' = IF return_code \notin {-stop_signal, 0}
                   THEN LogError(TDev, "AnomalousExit")
                   ELSE errors
    /\ pc' = "td_join"
    /\ UNCHANGED <<op, cur, devices, createResult, startError, destroyed,
                   obj, sockv, procs, logv, tdloc, hist, tdResult, env>>

\* fault variant: the future is not waited for
TeardownJoinUnchecked ==
    /\ TeardownRuns /\ pc = "td_join"
    /\ logging_future[devices[cur]] \in {"done", "running"}
    /\ hist' = [hist EXCEPT ![devices[cur]] = Append(@, "join_ok")]
    /\ pc' = "td_shutdown"
    /\ UNCHANGED <<op, cur, devices, createResult, startError, destroyed,
                   obj, sockv, procs, logv, tdloc, errors, tdResult, env>>

\* result = self.backing_process_logging_future.result(timeout=10): the
\* loop returned (None, so nothing is logged)
TeardownJoinOk ==
    /\ TeardownRuns /\ pc = "td_join"
    /\ logging_future[TDev] = "done"
    /\ hist' = Note(TDev, "join_ok")
    /\ pc' = "td_shutdown"
    /\ UNCHANGED <<op, cur, devices, createResult, startError, destroyed,
                   obj, sockv, procs, logv, tdloc, errors, tdResult, env>>

\* except concurrent.futures.TimeoutError: the loop is still running
TeardownJoinTimeout ==
    /\ TeardownRuns /\ pc = "td_join"
    /\ logging_future[TDev] = "running"
    /\ errors' = LogError(TDev, "DrainJoinTimeout")
    /\ hist' = Note(TDev, "join_timeout")
    /\ pc' = "td_shutdown"
    /\ UNCHANGED <<op, cur, devices, createResult, startError, destroyed,
                   obj, sockv, procs, logv, tdloc, tdResult, env>>

\* Future.result re-raises the exception the loop ended with; teardown()
\* has no handler for it
TeardownJoinRaises ==
    /\ TeardownRuns /\ pc = "td_join"
    /\ logging_future[TDev] = "error"
    /\ hist' = Note(TDev, "join_raised")
    /\ tdResult' = [tdResult EXCEPT ![TDev] = "raised"]
    /\ pc' = "td_raised"
    /\ UNCHANGED <<op, cur, devices, createResult, startError, destroyed,
                   obj, sockv, procs, logv, tdloc, errors, env>>

\* self.backing_process_logging_executor.shutdown(wait=False)
TeardownShutdownExecutor ==
    /\ TeardownRuns /\ pc = "td_shutdown"
    /\ logging_executor' = [logging_executor EXCEPT ![TDev] = "shutdown"]
    /\ hist' = Note(TDev, "executor_shutdown")
    /\ pc' = IF serial_number[TDev] THEN "ad_td_unmap" ELSE "td_coverage"
    /\ UNCHANGED <<op, cur, devices, createResult, startError, destroyed,
                   backing_process, logging_future, logging_stream,
                   grpc_channel, grpc_root_server_channel, sockv, procs,
                   logv, tdloc, errors, tdResult, env>>

\* GdHostOnlyDevice.teardown: generate_coverage_report(), then return
HostOnlyCoverageReport ==
    /\ TeardownRuns /\ pc = "td_coverage"
    /\ tdResult' = [tdResult EXCEPT ![TDev] = "returned"]
    /\ pc' = "td_done"
    /\ UNCHANGED <<op, cur, devices, createResult, startError, destroyed,
                   obj, sockv, procs, logv, tdloc, errors, hist, env>>

\* ------------------------------------------------ GdAndroidDevice.setup
\* a call made inside setup(): the callee's first statement, the statement
\* to return to, the argument
Call(entry, ret, arg) ==
    /\ pc' = entry
    /\ stack' = <<[ret |-> ret, arg |-> arg]>> \o stack

Return ==
    /\ pc' = Head(stack).ret
    /\ stack' = Tail(stack)

\* a statement of the pre-flight that raises nothing
Step == UNCHANGED <<call, cfg, base>>

\* push_or_die is on the stack: its except clause turns whatever is raised
\* below it into asserts.fail('Unable to push file ...')
PushFiles == {"bluetooth_stack_with_facade", "libbluetooth_gd.so",
              "libgrpc++_unsecure.so"}
InPush == \E i \in DOMAIN stack : stack[i].arg \in PushFiles

\* an exception leaves GdAndroidDevice.setup
AndroidRaise(kind) ==
    /\ RaiseFromSetup(IF InPush THEN "PushFailed" ELSE kind)
    /\ stack' = <<>> /\ num_retry' = 0 /\ error_or_port' = "none"
    /\ rb' = NoReboot
    /\ UNCHANGED budget
    /\ hist' = Note(Dev, "raise")
    /\ UNCHANGED <<cfg, adb, base>>

\* self.ensure_verity_disabled()
AndroidSetupEnsureVerity ==
    /\ SetupRuns /\ pc = "ad_verity"
    /\ Call("ev_root", "ad_root", "")
    /\ Step
    /\ UNCHANGED <<adb, fwd, rb, hist>>

\* asserts.assert_true(self.adb.ensure_root(), ...); adb.shell("date ...")
AndroidSetupEnsureRoot ==
    /\ SetupRuns /\ pc = "ad_root"
    /\ pc' = "ad_unmap"
    /\ hist' = Note(Dev, "root_ok")
    /\ Step
    /\ UNCHANGED adbv

\* ... ensure_root() returned False
AndroidSetupEnsureRootFails ==
    /\ SetupRuns /\ pc = "ad_root"
    /\ AndroidRaise("RootFailed")

\* remove_tcp_forward twice, reverse("--remove ..."): results ignored
AndroidSetupRemoveMappings ==
    /\ SetupRuns /\ pc = "ad_unmap"
    /\ adb' = [adb EXCEPT ![Dev].maps = {}]
    /\ pc' = "ad_fwd_grpc"
    /\ hist' = Note(Dev, "unmapped")
    /\ Step
    /\ UNCHANGED <<stack, fwd, rb>>

\* ... one of the three adb commands raises AdbError; no handler
AndroidSetupRemoveMappingsFails ==
    /\ SetupRuns /\ pc = "ad_unmap"
    /\ AndroidRaise("AdbError")

\* the three calls of tcp_forward_or_die / tcp_reverse_or_die, each with
\* the default num_retry
MappingCall(at, entry, ret, m) ==
    /\ SetupRuns /\ pc = at
    /\ Call(entry, ret, m)
    /\ num_retry' = DEFAULT_NUM_RETRY
    /\ budget' = DEFAULT_NUM_RETRY
    /\ Step
    /\ UNCHANGED <<adb, error_or_port, rb, hist>>

AndroidSetupForwardGrpc ==
    MappingCall("ad_fwd_grpc", "fw_try", "ad_fwd_root", "grpc_port")

AndroidSetupForwardRootServer ==
    MappingCall("ad_fwd_root", "fw_try", "ad_rev", "grpc_root_server_port")

AndroidSetupReverseSignal ==
    MappingCall("ad_rev", "rv_try", "ad_push1", "signal_port")

\* the three calls of push_or_die
AndroidSetupPush ==
    /\ SetupRuns
    /\ \E c \in {<<"ad_push1", "ad_push2", "bluetooth_stack_with_facade">>,
                 <<"ad_push2", "ad_push3", "libbluetooth_gd.so">>,
                 <<"ad_push3", "ad_clean", "libgrpc++_unsecure.so">>} :
          pc = c[1] /\ Call("ps_root", c[2], c[3])
    /\ Step
    /\ UNCHANGED <<adb, fwd, rb, hist>>

\* ensure_no_output(logcat -c); rm btsnoop_hci.log; ensure_no_output(svc
\* bluetooth disable); then super().setup()
AndroidSetupClearLogs ==
    /\ SetupRuns /\ pc = "ad_clean"
    /\ pc' = "sig_port"
    /\ hist' = Note(Dev, "logs_cleared")
    /\ Step
    /\ UNCHANGED adbv

\* ... a command printed something, or raised AdbError
AndroidSetupClearLogsFails ==
    /\ SetupRuns /\ pc = "ad_clean"
    /\ AndroidRaise("UnexpectedOutput")

\* ---------------------------------------------------------- push_or_die
\* self.adb.ensure_root() (result not looked at); ensure_verity_disabled()
PushEnsureRoot ==
    /\ SetupRuns /\ pc = "ps_root"
    /\ Call("ev_root", "ps_push", "")
    /\ Step
    /\ UNCHANGED <<adb, fwd, rb, hist>>

\* out = self.adb.push(...): no 'error' in out
PushFile ==
    /\ SetupRuns /\ pc = "ps_push"
    /\ adb' = [adb EXCEPT ![Dev].files = @ \cup {Head(stack).arg}]
    /\ hist' = Note(Dev, "pushed")
    /\ Return
    /\ Step
    /\ UNCHANGED <<fwd, rb>>

\* fault variant: a failed push is passed over
PushFileFailsIgnored ==
    /\ SetupRuns /\ pc = "ps_push"
    /\ Return
    /\ Step
    /\ UNCHANGED <<adb, fwd, rb, hist>>

\* ... 'error' in out, or push raised: asserts.fail
PushFileFails ==
    /\ SetupRuns /\ pc = "ps_push"
    /\ AndroidRaise("PushFailed")

\* ----------------------------------------------- ensure_verity_disabled
\* asserts.assert_true(self.adb.ensure_root(), ...)
VerityEnsureRoot ==
    /\ SetupRuns /\ pc = "ev_root"
    /\ pc' = "ev_props"
    /\ Step
    /\ UNCHANGED <<adbv, hist>>

VerityEnsureRootFails ==
    /\ SetupRuns /\ pc = "ev_root"
    /\ AndroidRaise("RootFailed")

\* fault variant: only partition.system.verified decides
VerityReadPropsSystemOnly ==
    /\ SetupRuns /\ pc = "ev_props"
    /\ pc' = IF "system" \in adb[Dev].verity THEN "ev_disable"
                                              ELSE "ev_remount"
    /\ Step
    /\ UNCHANGED <<adbv, hist>>

\* getprop partition.system.verified / partition.vendor.verified
VerityReadProps ==
    /\ SetupRuns /\ pc = "ev_props"
    /\ pc' = IF adb[Dev].verity # {} THEN "ev_disable" ELSE "ev_remount"
    /\ Step
    /\ UNCHANGED <<adbv, hist>>

\* self.adb.disable_verity(); self.reboot()
VerityDisable ==
    /\ SetupRuns /\ pc = "ev_disable"
    /\ adb' = [adb EXCEPT ![Dev].verity = {}]
    /\ hist' = Note(Dev, "disable_verity")
    /\ Call("rb_reboot", "ev_remount", "")
    /\ Step
    /\ UNCHANGED <<fwd, rb>>

\* self.adb.remount(); self.adb.wait_for_device(timeout=180); return
VerityRemount ==
    /\ SetupRuns /\ pc = "ev_remount"
    /\ hist' = Note(Dev, "remount")
    /\ Return
    /\ Step
    /\ UNCHANGED <<adb, fwd, rb>>

\* --------------------------------------------------------------- reboot
\* self.adb.reboot(); timeout_start = time.time()
RebootIssue ==
    /\ SetupRuns /\ pc = "rb_reboot"
    /\ adb' = [adb EXCEPT ![Dev].state = "rebooting"]
    /\ rb' = NoReboot
    /\ hist' = Note(Dev, "reboot")
    /\ pc' = "rb_reach"
    /\ Step
    /\ UNCHANGED <<stack, fwd>>

\* get_state() answers; time.sleep(.1)
RebootGetState ==
    /\ SetupRuns /\ pc = "rb_reach"
    /\ rb.clock < RebootTicks
    /\ adb[Dev].state # "offline"
    /\ rb' = [rb EXCEPT !.clock = @ + 1]
    /\ Step
    /\ UNCHANGED <<pc, adb, stack, fwd, hist>>

\* get_state() raises AdbError: break; minutes_left = what is left
RebootUnreachable ==
    /\ SetupRuns /\ pc = "rb_reach"
    /\ rb.clock < RebootTicks
    /\ adb[Dev].state = "offline"
    /\ rb' = [rb EXCEPT !.ended = "unreachable",
                        !.left = RebootTicks - rb.clock]
    /\ pc' = "wb_wait"
    /\ Step
    /\ UNCHANGED <<adb, stack, fwd, hist>>

\* the while condition fails: the timeout has passed, nothing is left
RebootReachTimeout ==
    /\ SetupRuns /\ pc = "rb_reach"
    /\ rb.clock >= RebootTicks
    /\ rb' = [rb EXCEPT !.ended = "timeout",
                        !.left = RebootTicks - rb.clock]
    /\ pc' = "wb_wait"
    /\ Step
    /\ UNCHANGED <<adb, stack, fwd, hist>>

\* --------------------------------------------- wait_for_boot_completion
\* self.adb.wait_for_device(timeout=180) returns once adb sees the device;
\* the wait uses up part of the time that is left, or none
BootWaitForDevice ==
    /\ SetupRuns /\ pc = "wb_wait"
    /\ adb[Dev].state # "offline"
    /\ \E t \in {0, 1} : rb' = [rb EXCEPT !.left = @ - t]
    /\ pc' = "wb_loop"
    /\ Step
    /\ UNCHANGED <<adb, stack, fwd, hist>>

\* ... the device does not show up in 180 s: AdbError
BootWaitForDeviceFails ==
    /\ SetupRuns /\ pc = "wb_wait"
    /\ adb[Dev].state = "offline"
    /\ AndroidRaise("AdbError")

\* completed = getprop("sys.boot_completed"); if completed == '1': return
BootPollCompleted ==
    /\ SetupRuns /\ pc = "wb_loop"
    /\ rb.left > 0
    /\ adb[Dev].state \in {"online", "rebooting"}
    /\ rb' = [rb EXCEPT !.completed = "1"]
    /\ pc' = "wb_return"
    /\ Step
    /\ UNCHANGED <<adb, stack, fwd, hist>>

\* ... another value; time.sleep(5)
BootPollNotCompleted ==
    /\ SetupRuns /\ pc = "wb_loop"
    /\ rb.left > 0
    /\ adb[Dev].state = "booting"
    /\ rb' = [rb EXCEPT !.completed = "", !.left = @ - 1]
    /\ Step
    /\ UNCHANGED <<pc, adb, stack, fwd, hist>>

\* fault variant: a poll that raises ends the wait like a completed boot
BootPollErrorReturns ==
    /\ SetupRuns /\ pc = "wb_loop"
    /\ rb.left > 0
    /\ adb[configs[cur]].state \in {"offline", "booting"}
    /\ rb' = [rb EXCEPT !.completed = "error", !.ignored = @ + 1]
    /\ pc' = "wb_return"
    /\ Step
    /\ UNCHANGED <<adb, stack, fwd, hist>>

\* except AdbError: pass; time.sleep(5)
BootPollError ==
    /\ SetupRuns /\ pc = "wb_loop"
    /\ rb.left > 0
    /\ adb[Dev].state \in {"offline", "booting"}
    /\ rb' = [rb EXCEPT !.completed = "error", !.left = @ - 1,
                        !.ignored = @ + 1]
    /\ Step
    /\ UNCHANGED <<pc, adb, stack, fwd, hist>>

\* the while condition fails: asserts.fail('... booting process timed out.')
BootPollExhausted ==
    /\ SetupRuns /\ pc = "wb_loop"
    /\ rb.left <= 0
    /\ AndroidRaise("BootTimeout")

\* wait_for_boot_completion and reboot return
RebootReturns ==
    /\ SetupRuns /\ pc = "wb_return"
    /\ rb' = NoReboot
    /\ hist' = Note(Dev, "reboot_ok")
    /\ Return
    /\ Step
    /\ UNCHANGED <<adb, fwd>>

\* the device: goes down after adb reboot, comes back, finishes booting
DeviceGoesDown(d) ==
    /\ adb[d].state = "rebooting"
    /\ adb' = [adb EXCEPT ![d].state = "offline"]
    /\ UNCHANGED <<ctl, cfg, base, stack, fwd, rb, hist>>

DeviceComesUp(d) ==
    /\ adb[d].state = "offline"
    /\ adb' = [adb EXCEPT ![d].state = "booting"]
    /\ UNCHANGED <<ctl, cfg, base, stack, fwd, rb, hist>>

DeviceBooted(d) ==
    /\ adb[d].state = "booting"
    /\ adb' = [adb EXCEPT ![d].state = "online"]
    /\ UNCHANGED <<ctl, cfg, base, stack, fwd, rb, hist>>

\* ------------------------------ tcp_forward_or_die / tcp_reverse_or_die
\* what adb.tcp_forward / adb.reverse give back: nothing or the port when
\* the mapping was made, the text of adb's error when it was not
MappingResults == {"", "port", "error"}

\* int(error_or_port) raises ValueError, isinstance(error_or_port, int) is
\* False: the result is not a port
NotAPort(r) == r = "error"

\* error_or_port = self.adb.tcp_forward(...) / self.adb.reverse(...)
MappingAttempt(at, check) ==
    /\ SetupRuns /\ pc = at
    /\ \E r \in MappingResults :
          /\ error_or_port' = r
          /\ adb' = [adb EXCEPT ![Dev].maps =
                       IF NotAPort(r) THEN @ ELSE @ \cup {Head(stack).arg}]
    /\ hist' = Note(Dev, "map_attempt")
    /\ pc' = check
    /\ Step
    /\ UNCHANGED <<stack, num_retry, budget, rb>>

\* fault variant: a result that is no port is returned like a port
MappingDieIgnored(check) ==
    /\ SetupRuns /\ pc = check
    /\ error_or_port = "error"
    /\ num_retry = 0
    /\ error_or_port' = "none"
    /\ hist' = [hist EXCEPT ![configs[cur]] = Append(@, "map_ok")]
    /\ Return
    /\ Step
    /\ UNCHANGED <<adb, num_retry, budget, rb>>

\* if not error_or_port: return the port asked for; a port: return it
MappingOk(check) ==
    /\ SetupRuns /\ pc = check
    /\ error_or_port # "" => ~NotAPort(error_or_port)
    /\ error_or_port' = "none"
    /\ hist' = Note(Dev, "map_ok")
    /\ Return
    /\ Step
    /\ UNCHANGED <<adb, num_retry, budget, rb>>

\* fault variant: retries once more when num_retry has reached 0
MappingRetryOnceMore(at, check) ==
    /\ SetupRuns /\ pc = check
    /\ error_or_port # "" /\ NotAPort(error_or_port)
    /\ num_retry >= 0
    /\ num_retry' = num_retry - 1
    /\ error_or_port' = "none"
    /\ Call("rb_reboot", at, "")
    /\ Step
    /\ UNCHANGED <<adb, budget, rb, hist>>

\* not a port and num_retry > 0: num_retry -= 1; self.reboot(); return
\* the result of the same call made again
MappingRetry(at, check) ==
    /\ SetupRuns /\ pc = check
    /\ error_or_port # "" /\ NotAPort(error_or_port)
    /\ num_retry > 0
    /\ num_retry' = num_retry - 1
    /\ error_or_port' = "none"
    /\ Call("rb_reboot", at, "")
    /\ Step
    /\ UNCHANGED <<adb, budget, rb, hist>>

\* not a port and num_retry is 0: asserts.fail
MappingDie(check) ==
    /\ SetupRuns /\ pc = check
    /\ error_or_port # "" /\ NotAPort(error_or_port)
    /\ num_retry = 0
    /\ AndroidRaise("MappingFailed")

TcpForwardAttempt == MappingAttempt("fw_try", "fw_check")
TcpForwardOk == MappingOk("fw_check")
TcpForwardRetry == MappingRetry("fw_try", "fw_check")
TcpForwardDie == MappingDie("fw_check")
TcpReverseAttempt == MappingAttempt("rv_try", "rv_check")
TcpReverseOk == MappingOk("rv_check")
TcpReverseRetry == MappingRetry("rv_try", "rv_check")
TcpReverseDie == MappingDie("rv_check")

\* --------------------------------------------- GdAndroidDevice.teardown
\* an AdbError leaves teardown()
AndroidTeardownRaise ==
    /\ tdResult' = [tdResult EXCEPT ![TDev] = "raised"]
    /\ hist' = Note(TDev, "td_adb_error")
    /\ pc' = "td_raised"
    /\ UNCHANGED <<call, cfg, adbv, obj, sockv, procs, logv, tdloc, errors>>

\* after super().teardown(): remove_tcp_forward twice, reverse --remove
AndroidTeardownRemoveMappings ==
    /\ TeardownRuns /\ pc = "ad_td_unmap"
    /\ adb' = [adb EXCEPT ![TDev].maps = {}]
    /\ hist' = Note(TDev, "td_unmapped")
    /\ pc' = "ad_td_logs"
    /\ Step
    /\ UNCHANGED <<stack, fwd, rb>>

AndroidTeardownRemoveMappingsFails ==
    /\ TeardownRuns /\ pc = "ad_td_unmap"
    /\ AndroidTeardownRaise

\* logcat -d -f ...; adb.pull twice; teardown() returns
AndroidTeardownPullLogs ==
    /\ TeardownRuns /\ pc = "ad_td_logs"
    /\ hist' = Note(TDev, "logs_pulled")
    /\ tdResult' = [tdResult EXCEPT ![TDev] = "returned"]
    /\ pc' = "td_done"
    /\ UNCHANGED <<call, cfg, adbv, obj, sockv, procs, logv, tdloc, errors>>

AndroidTeardownPullLogsFails ==
    /\ TeardownRuns /\ pc = "ad_td_logs"
    /\ AndroidTeardownRaise

\* ------------------------------------------------- the backing process
\* the program is one that prints k lines before it connects
WorkerPlansOutput(p) ==
    /\ procs[p].alive /\ procs[p].conn = "no"
    /\ procs[p].out = 0 /\ procs[p].pre = 0
    /\ \E k \in 1..MaxLines : procs' = [procs EXCEPT ![p].pre = k]
    /\ UNCHANGED <<ctl, obj, sockv, logv, tdloc, errors, hist, tdResult, env>>

\* connects to --signal-port once it has printed what it prints before;
\* refused when nothing listens there
WorkerConnect(p) ==
    /\ procs[p].alive /\ procs[p].conn = "no"
    /\ procs[p].out >= procs[p].pre
    /\ IF signal_socket[procs[p].owner] = "listening"
         THEN /\ procs' = [procs EXCEPT ![p].conn = "yes"]
              /\ backlog' = [backlog EXCEPT ![procs[p].owner] = @ \cup {p}]
         ELSE /\ procs' = [procs EXCEPT ![p].conn = "refused"]
              /\ UNCHANGED backlog
    /\ UNCHANGED <<ctl, obj, signal_socket, logv, tdloc, errors, hist,
                   tdResult, env>>

\* prints a line on stdout/stderr; blocks while the pipe is full
WorkerWrite(p) ==
    /\ procs[p].alive
    /\ procs[p].out < MaxLines
    /\ procs[p].out - procs[p].rd < PipeCap
    /\ procs' = [procs EXCEPT ![p].out = @ + 1]
    /\ UNCHANGED <<ctl, obj, sockv, logv, tdloc, errors, hist, tdResult, env>>

Exited(p, c, o) ==
    [procs EXCEPT ![p].alive = FALSE, ![p].code = c, ![p].pending = {},
                  ![p].open = o]

\* exits by itself with status c; o: a descendant keeps the pipe open
WorkerExit(p) ==
    /\ procs[p].alive
    /\ \E c \in ExitCodes, o \in BOOLEAN : procs' = Exited(p, c, o)
    /\ UNCHANGED <<ctl, obj, sockv, logv, tdloc, errors, hist, tdResult, env>>

\* is terminated by a signal it was sent: Popen reports -signal
WorkerKilled(p) ==
    /\ procs[p].alive
    /\ \E s \in procs[p].pending, o \in BOOLEAN : procs' = Exited(p, -s, o)
    /\ UNCHANGED <<ctl, obj, sockv, logv, tdloc, errors, hist, tdResult, env>>

\* -------------------------------------- __backing_process_logging_loop
\* fault variant: the line is read but not written to the log
LoggingLoopLineUnwritten(d) ==
    /\ logging_future[d] = "running"
    /\ procs[logging_stream[d]].rd < procs[logging_stream[d]].out
    /\ procs' = [procs EXCEPT ![logging_stream[d]].rd = @ + 1]
    /\ UNCHANGED <<ctl, obj, sockv, logv, tdloc, errors, hist, tdResult, env>>

\* for line in self.backing_process.stdout: backing_process_log.write(line)
LoggingLoopLine(d) ==
    /\ logging_future[d] = "running"
    /\ Stream(d).rd < Stream(d).out
    /\ log_buffer' = [log_buffer EXCEPT ![d] =
                        Append(@, Line(logging_stream[d], Stream(d).rd + 1))]
    /\ procs' = [procs EXCEPT ![logging_stream[d]].rd = @ + 1]
    /\ UNCHANGED <<ctl, obj, sockv, log, tdloc, errors, hist, tdResult, env>>

\* the file object's buffer is written out (it does so when it is full)
LoggingLoopFlush(d) ==
    /\ logging_future[d] = "running"
    /\ log_buffer[d] # <<>>
    /\ log' = [log EXCEPT ![d] = @ \o log_buffer[d]]
    /\ log_buffer' = [log_buffer EXCEPT ![d] = <<>>]
    /\ UNCHANGED <<ctl, obj, sockv, procs, tdloc, errors, hist, tdResult, env>>

\* end of stream: every write end is closed and the pipe is empty; the
\* with block flushes and closes the log file and the loop returns None
LoggingLoopEnds(d) ==
    /\ logging_future[d] = "running"
    /\ ~Stream(d).open /\ Stream(d).rd = Stream(d).out
    /\ logging_future' = [logging_future EXCEPT ![d] = "done"]
    /\ log' = [log EXCEPT ![d] = @ \o log_buffer[d]]
    /\ log_buffer' = [log_buffer EXCEPT ![d] = <<>>]
    /\ UNCHANGED <<ctl, backing_process, logging_executor, logging_stream,
                   grpc_channel,
                   grpc_root_server_channel, sockv, procs, tdloc,
                   errors, hist, tdResult, env>>

\* the loop ends with an exception (the log cannot be written, a line
\* cannot be decoded): the with block closes the file, the buffered lines
\* reach it or are lost, and the future stores the exception
LoggingLoopRaises(d) ==
    /\ logging_future[d] = "running"
    /\ logging_future' = [logging_future EXCEPT ![d] = "error"]
    /\ \E written \in BOOLEAN :
          log' = [log EXCEPT ![d] =
                    IF written THEN @ \o log_buffer[d] ELSE @]
    /\ log_buffer' = [log_buffer EXCEPT ![d] = <<>>]
    /\ UNCHANGED <<ctl, backing_process, logging_executor, logging_stream,
                   grpc_channel,
                   grpc_root_server_channel, sockv, procs, tdloc,
                   errors, hist, tdResult, env>>

\* ----------------------------------------------------------------- Next
Supervisor ==
    \/ CallCreate
    \/ HostOnlySetupPorts
    \/ SetupSignalPort
    \/ SetupBindListen
    \/ SetupSpawn
    \/ SetupSpawnFails
    \/ SetupProbe
    \/ SetupAccept
    \/ SetupSubmitLogging
    \/ SetupOpenChannels
    \/ CreateNext
    \/ CallDestroy
    \/ TeardownCloseChannels
    \/ TeardownInterrupt
    \/ TeardownWait1Exit
    \/ TeardownWait1Timeout
    \/ TeardownKill
    \/ TeardownWait2Exit
    \/ TeardownWait2Timeout
    \/ TeardownCheckCode
    \/ TeardownJoinOk
    \/ TeardownJoinTimeout
    \/ TeardownJoinRaises
    \/ TeardownShutdownExecutor
    \/ HostOnlyCoverageReport
    \/ DestroyNext
    \/ DestroyCatch

Worker ==
    \E p \in 1..Len(procs) :
        \/ WorkerConnect(p)
        \/ WorkerWrite(p)
        \/ WorkerExit(p)
        \/ WorkerKilled(p)

LoggingThread ==
    \E d \in Devs :
        \/ LoggingLoopLine(d)
        \/ LoggingLoopFlush(d)
        \/ LoggingLoopEnds(d)
        \/ LoggingLoopRaises(d)

Next == Supervisor \/ Worker \/ LoggingThread

Spec == Init /\ [][Next]_vars

\* the control thread is scheduled: a statement that can run does run
FairSpec == Spec /\ WF_vars(Supervisor)

\* create() over every config list of up to NumDevices devices whose
\* backing processes print nothing
InitCreate ==
    InitState({<<>>} \cup {[i \in 1..n |-> i] : n \in 1..NumDevices},
              {HostOnly})

QuietWorker ==
    \E p \in 1..Len(procs) :
        \/ WorkerConnect(p)
        \/ WorkerExit(p)
        \/ WorkerKilled(p)

QuietLoggingThread ==
    \E d \in Devs :
        \/ LoggingLoopEnds(d)
        \/ LoggingLoopRaises(d)

NextCreate == Supervisor \/ QuietWorker \/ QuietLoggingThread

SpecCreate == InitCreate /\ [][NextCreate]_vars

\* create() and destroy() over the same lists, with backing processes
\* that run until they are signalled
SignalledWorker ==
    \E p \in 1..Len(procs) :
        \/ WorkerConnect(p)
        \/ WorkerKilled(p)

NextDestroy == Supervisor \/ SignalledWorker \/ QuietLoggingThread

SpecDestroy == InitCreate /\ [][NextDestroy]_vars

\* one host-only device whose backing process may print before it
\* connects to the signal port
Chatty == \E p \in 1..Len(procs) : WorkerPlansOutput(p)

NextOutput == Next \/ Chatty

SpecOutput == Init /\ [][NextOutput]_vars

\* ------------------------------------ both device variants, one device
AndroidSetup ==
    \/ AndroidSetupEnsureVerity
    \/ AndroidSetupEnsureRoot
    \/ AndroidSetupRemoveMappings
    \/ AndroidSetupForwardGrpc
    \/ AndroidSetupForwardRootServer
    \/ AndroidSetupReverseSignal
    \/ AndroidSetupPush
    \/ AndroidSetupClearLogs
    \/ PushEnsureRoot
    \/ PushFile
    \/ VerityEnsureRoot
    \/ VerityReadProps
    \/ VerityRemount
    \/ TcpForwardAttempt
    \/ TcpForwardOk
    \/ TcpReverseAttempt
    \/ TcpReverseOk

AndroidTeardown ==
    \/ AndroidTeardownRemoveMappings
    \/ AndroidTeardownPullLogs

\* what the device and adb can answer besides success
AndroidFaults ==
    \/ AndroidSetupEnsureRootFails
    \/ AndroidSetupRemoveMappingsFails
    \/ AndroidSetupClearLogsFails
    \/ PushFileFails
    \/ VerityEnsureRootFails
    \/ TcpForwardRetry
    \/ TcpForwardDie
    \/ TcpReverseRetry
    \/ TcpReverseDie
    \/ AndroidTeardownRemoveMappingsFails
    \/ AndroidTeardownPullLogsFails

RebootProtocol ==
    \/ RebootIssue
    \/ RebootGetState
    \/ RebootUnreachable
    \/ RebootReachTimeout
    \/ BootWaitForDevice
    \/ BootWaitForDeviceFails
    \/ BootPollCompleted
    \/ BootPollNotCompleted
    \/ BootPollError
    \/ BootPollExhausted
    \/ RebootReturns

Reboot ==
    \/ VerityDisable
    \/ RebootProtocol

Device ==
    \E d \in Devs :
        \/ DeviceGoesDown(d)
        \/ DeviceComesUp(d)
        \/ DeviceBooted(d)

\* one device, host-only or Android, whose backing process prints nothing;
\* only the ports of that device may be busy
InitVariants ==
    /\ InitState({<<1>>}, {[d \in Devs |-> d = 1 /\ a] : a \in BOOLEAN})
    /\ busy \subseteq {grpc_port(1), signal_port(1)}
    /\ log = [d \in Devs |-> <<>>]

NextVariants ==
    \/ Supervisor
    \/ AndroidSetup
    \/ AndroidTeardown
    \/ AndroidFaults
    \/ Reboot
    \/ Device
    \/ QuietWorker
    \/ QuietLoggingThread

SpecVariants == InitVariants /\ [][NextVariants]_vars

\* --------------------- setup() / teardown() called on a device directly
\* the caller holds the devices create() returned and calls their methods
\* itself, in any order, MaxCalls times per device at most; teardown()
\* reads attributes that exist once a setup() has opened the channels
CallCount(d) ==
    Cardinality({i \in DOMAIN hist[d] :
                   hist[d][i] \in {"call_setup", "call_teardown"}})

CallSetup ==
    /\ op = "idle" /\ createResult = "ok"
    /\ \E i \in DOMAIN devices :
          /\ CallCount(devices[i]) < MaxCalls
          /\ cur' = i
          /\ pc' = FirstSetupPc(devices[i])
          /\ hist' = Note(devices[i], "call_setup")
    /\ op' = "setup" /\ startError' = "none"
    /\ UNCHANGED <<devices, createResult, destroyed, base, env>>

\* setup() returns to the caller
SetupReturns ==
    /\ op = "setup" /\ pc = "setup_done"
    /\ op' = "idle" /\ pc' = "none"
    /\ hist' = Note(Dev, "setup_returned")
    /\ UNCHANGED <<cur, devices, createResult, startError, destroyed, base,
                   env>>

CallTeardown ==
    /\ op = "idle" /\ createResult = "ok"
    /\ \E i \in DOMAIN devices :
          /\ CallCount(devices[i]) < MaxCalls
          /\ grpc_channel[devices[i]] # "unset"
          /\ cur' = i
          /\ hist' = Note(devices[i], "call_teardown")
          /\ tdResult' = [tdResult EXCEPT ![devices[i]] = "none"]
    /\ op' = "teardown" /\ pc' = "td_close"
    /\ UNCHANGED <<devices, createResult, startError, destroyed, obj, sockv,
                   procs, logv, tdloc, errors, env>>

\* teardown() returns to the caller, or what it raised reaches the caller
TeardownReturns ==
    /\ op = "teardown" /\ pc \in {"td_done", "td_raised"}
    /\ op' = "idle" /\ pc' = "none"
    /\ hist' = Note(TDev, "teardown_ended")
    /\ UNCHANGED <<cur, devices, createResult, startError, destroyed, base,
                   env>>

Direct ==
    \/ CallSetup
    \/ SetupReturns
    \/ CallTeardown
    \/ TeardownReturns

\* no port is held by a foreign process; the device of an Android config
\* has verity off and answers every adb command
InitCalls ==
    /\ InitVariants
    /\ busy = {}
    /\ \A d \in Devs : adb[d].verity = {} /\ adb[d].maps = {}

NextCalls ==
    \/ Supervisor
    \/ Direct
    \/ AndroidSetup
    \/ AndroidTeardown
    \/ QuietWorker
    \/ QuietLoggingThread

SpecCalls == InitCalls /\ [][NextCalls]_vars

\* ------------- tcp_forward_or_die / tcp_reverse_or_die called directly
\* the caller holds a GdAndroidDevice that was constructed and calls one
\* of the two methods on it with a num_retry of its choice
MappingCalls(d) ==
    Cardinality({i \in DOMAIN hist[d] : hist[d][i] = "call_mapping"})

CallMappingOrDie ==
    /\ op = "idle" /\ createResult = "none"
    /\ \E i \in DOMAIN configs :
          /\ serial_number[configs[i]]
          /\ MappingCalls(configs[i]) < MaxCalls
          /\ cur' = i
          /\ hist' = Note(configs[i], "call_mapping")
    /\ \E n \in 0..MaxRetry :
          /\ num_retry' = n
          /\ budget' = n
    /\ \/ \E m \in {"grpc_port", "grpc_root_server_port"} :
             Call("fw_try", "map_done", m)
       \/ Call("rv_try", "map_done", "signal_port")
    /\ op' = "mapping" /\ startError' = "none"
    /\ UNCHANGED <<devices, createResult, destroyed, cfg, adb,
                   error_or_port, rb, base>>

\* the method returns the port to the caller
MappingReturns ==
    /\ op = "mapping" /\ pc = "map_done"
    /\ op' = "idle" /\ pc' = "none"
    /\ hist' = Note(Dev, "mapping_returned")
    /\ UNCHANGED <<cur, devices, createResult, startError, destroyed, base,
                   env>>

\* one Android device, constructed and not set up
InitMapping ==
    /\ InitVariants
    /\ serial_number[1]
    /\ busy = {}

\* the thread that runs the method
MappingThread ==
    \/ MappingReturns
    \/ TcpForwardAttempt
    \/ TcpForwardOk
    \/ TcpForwardRetry
    \/ TcpForwardDie
    \/ TcpReverseAttempt
    \/ TcpReverseOk
    \/ TcpReverseRetry
    \/ TcpReverseDie
    \/ RebootProtocol

NextMapping ==
    \/ CallMappingOrDie
    \/ MappingThread
    \/ Device

SpecMapping == InitMapping /\ [][NextMapping]_vars

\* the thread is scheduled: a statement of the method that can run does
FairMapping == SpecMapping /\ WF_vars(MappingThread)

\* ============================================================== claims
Has(d, e) == \E i \in DOMAIN hist[d] : hist[d][i] = e
Before(d, a, b) ==
    \E i, j \in DOMAIN hist[d] : i < j /\ hist[d][i] = a /\ hist[d][j] = b
Spawned(d) == backing_process[d] # 0
InSetup(d) == SetupRuns /\ configs[cur] = d
InTeardown(d) == TeardownRuns /\ devices[cur] = d
ProcsOf(d) == {p \in 1..Len(procs) : procs[p].owner = d}
Emitted(d) == [k \in 1..Proc(d).out |-> Line(backing_process[d], k)]

\* C1: setup() waiting in accept() for a worker that never connects ends
\* its wait: it fails with StartupTimeout and the worker is not alive.
C1_StartupTimeout ==
    \A d \in Devs :
        (InSetup(d) /\ pc = "accept")
            ~> /\ Spawned(d)
               /\ \/ Proc(d).conn = "yes"
                  \/ (startError = "StartupTimeout" /\ ~Proc(d).alive)

\* C2: every teardown() that was entered ends, whatever the worker and
\* the logging thread do.
C2_TeardownEnds ==
    \A d \in Devs :
        (InTeardown(d) /\ pc = "td_close") ~> (tdResult[d] # "none")

C2_Witness ==
    \E d \in Devs :
        /\ tdResult[d] = "returned"
        /\ Proc(d).alive
        /\ logging_future[d] = "running"
        /\ {"FailedToInterrupt", "FailedToKill", "DrainJoinTimeout"}
              \subseteq errors[d]

\* C3: the signal socket listens before the worker is spawned, and no
\* worker's connection is ever refused.
C3_ListenBeforeSpawn ==
    \A p \in 1..Len(procs) :
        /\ Before(procs[p].owner, "listen", "spawn")
        /\ procs[p].conn # "refused"
        /\ (procs[p].alive /\ procs[p].conn = "no"
              => signal_socket[procs[p].owner] = "listening")

C3_Witness ==
    \E p \in 1..Len(procs) :
        procs[p].conn = "yes" /\ SetupRuns /\ pc = "probe"

\* C4: a channel is open, or setup() has returned, only for a device
\* whose worker connected and whose connection accept() has taken.
HandshakeDone(d) ==
    /\ Spawned(d)
    /\ Proc(d).conn = "yes"
    /\ Before(d, "spawn", "accept")
    /\ backing_process[d] \notin backlog[d]

C4_ChannelsAfterHandshake ==
    \A d \in Devs :
        (\/ grpc_channel[d] = "open"
         \/ grpc_root_server_channel[d] = "open"
         \/ Has(d, "channels_open")
         \/ \E i \in DOMAIN devices : devices[i] = d)
            => HandshakeDone(d)

C4_Witness ==
    \E d \in Devs :
        /\ grpc_channel[d] = "open" /\ grpc_root_server_channel[d] = "open"
        /\ createResult = "ok"
        /\ HandshakeDone(d)

\* C5: when the worker has exited without connecting, setup() is not
\* waiting in accept(), has not failed with StartupTimeout, and once it
\* has ended it has failed with ImmediateExit.
C5_EarlyExitFailsFast ==
    \A d \in Devs :
        (Spawned(d) /\ ~Proc(d).alive /\ Proc(d).conn = "no")
            => /\ ~(InSetup(d) /\ pc = "accept")
               /\ startError # "StartupTimeout"
               /\ (op = "idle" => startError = "ImmediateExit")

\* C6: when create() has raised, no process it spawned is alive.
C6_NoLeakOnFailedCreate ==
    createResult = "raised" => \A p \in 1..Len(procs) : ~procs[p].alive

\* C7 (as claimed): when teardown() has returned, no worker of the
\* device is alive.
C7_NoWorkerAfterTeardown ==
    \A d \in Devs :
        tdResult[d] = "returned" => \A p \in ProcsOf(d) : ~procs[p].alive

\* C7 (amended): when teardown() has returned without the "failed to
\* kill" condition, no worker of the device is alive.
C7_NoWorkerUnlessKillFailed ==
    \A d \in Devs :
        (tdResult[d] = "returned" /\ "FailedToKill" \notin errors[d])
            => \A p \in ProcsOf(d) : ~procs[p].alive

C7_Witness ==
    \E d \in Devs :
        /\ tdResult[d] = "returned"
        /\ "FailedToKill" \notin errors[d]
        /\ Has(d, "sigkill")
        /\ ~Proc(d).alive /\ Proc(d).code = -SIGKILL

\* C8 (as claimed): when teardown() has returned, the log file holds the
\* lines the worker printed, each once, in order, and nothing else.
C8_LogComplete ==
    \A d \in Devs : tdResult[d] = "returned" => log[d] = Emitted(d)

\* C8 (amended): the same, when the join of the logging future did not
\* time out.
C8_LogCompleteAfterJoin ==
    \A d \in Devs :
        (tdResult[d] = "returned" /\ "DrainJoinTimeout" \notin errors[d])
            => log[d] = Emitted(d)

C8_Witness ==
    \E d \in Devs :
        /\ tdResult[d] = "returned"
        /\ "DrainJoinTimeout" \notin errors[d]
        /\ Proc(d).out = MaxLines
        /\ Len(log[d]) = MaxLines

\* C9: in teardown() both channels are closed before SIGINT is sent, and
\* stay closed.
C9_ChannelsClosedFirst ==
    \A d \in Devs :
        /\ Has(d, "sigint") => Before(d, "channels_closed", "sigint")
        /\ (Has(d, "channels_closed") \/ Has(d, "sigint")
              \/ \E p \in ProcsOf(d) : procs[p].pending # {})
             => /\ grpc_channel[d] = "closed"
                /\ grpc_root_server_channel[d] = "closed"

C9_Witness ==
    \E d \in Devs :
        /\ InTeardown(d) /\ pc = "td_wait1"
        /\ SIGINT \in Proc(d).pending
        /\ grpc_channel[d] = "closed"
        /\ grpc_root_server_channel[d] = "closed"

\* C10: SIGINT is sent first; SIGKILL is sent exactly when the first wait
\* timed out, which it does only on a worker that is still running, and
\* never after the first wait returned the worker's status.
C10_KillOrder ==
    \A d \in Devs :
        /\ Has(d, "sigkill")
             => /\ Before(d, "sigint", "wait1_timeout")
                /\ Before(d, "wait1_timeout", "sigkill")
        /\ Has(d, "wait1_exit")
             => /\ Before(d, "sigint", "wait1_exit")
                /\ ~Has(d, "sigkill") /\ ~Has(d, "wait1_timeout")
        /\ \A p \in ProcsOf(d) :
             /\ SIGKILL \in procs[p].pending => Has(d, "wait1_timeout")
             /\ procs[p].code = -SIGKILL => Has(d, "sigkill")
        /\ tdResult[d] # "none"
             => /\ Has(d, "sigint")
                /\ Has(d, "sigkill") <=> Has(d, "wait1_timeout")

\* C10: the order of signals above holds in every state, and the first
\* wait leads to kill() only from a state where the worker is running and
\* to the status check only from a state where it has exited.
C10_EscalateOnlyOnTimeout ==
    /\ []C10_KillOrder
    /\ [][\A d \in Devs :
            (InTeardown(d) /\ pc = "td_wait1")
              => /\ pc' = "td_kill" => Proc(d).alive
                 /\ pc' = "td_check" => ~Proc(d).alive]_vars

C10_Witness ==
    \E d \in Devs :
        /\ tdResult[d] = "returned"
        /\ Has(d, "sigkill")
        /\ Proc(d).code = -SIGKILL

\* the worker outlived the interrupt and the first wait, and the second
\* wait returned the status of a death by SIGKILL
KilledByEscalation(d) ==
    /\ Has(d, "wait1_timeout") /\ Has(d, "wait2_exit")
    /\ Proc(d).code = -SIGKILL

\* teardown() of d is past its check of return_code
PastCheck(d) ==
    \/ tdResult[d] # "none"
    \/ InTeardown(d)
         /\ pc \in {"td_join", "td_shutdown", "td_coverage", "td_done",
                    "td_raised"}

\* C11 (as stated): when the worker ignores the interrupt and dies from
\* the kill, teardown() records an anomalous-exit warning and does not
\* fail.
C11_KillRecordsAnomalousExit ==
    \A d \in Devs :
        KilledByEscalation(d)
          => /\ PastCheck(d) => "AnomalousExit" \in errors[d]
             /\ tdResult[d] # "raised"

\* C11 (amended): when the worker ignores the interrupt and dies from the
\* kill, teardown() logs the failed interrupt and nothing else about the
\* exit (death by SIGKILL is then the expected status), and it goes on to
\* the join of the logging future; it raises only what that join raises.
C11_KillIsExpectedExit ==
    \A d \in Devs :
        (KilledByEscalation(d) /\ PastCheck(d))
          => /\ "FailedToInterrupt" \in errors[d]
             /\ "AnomalousExit" \notin errors[d]
             /\ "FailedToKill" \notin errors[d]
             /\ tdResult[d] = "raised" => Has(d, "join_raised")

C11_Witness ==
    \E d \in Devs :
        /\ KilledByEscalation(d)
        /\ tdResult[d] = "returned"
        /\ errors[d] = {"FailedToInterrupt"}

\* C12: a join of the logging future that timed out, or that found the
\* loop ended by an exception, is logged; teardown() then returns
\* normally and has shut the executor down.
C12_DrainFailureIsWarning ==
    \A d \in Devs :
        /\ tdResult[d] # "raised"
        /\ Has(d, "join_raised") => "DrainError" \in errors[d]
        /\ Has(d, "join_timeout") => "DrainJoinTimeout" \in errors[d]
        /\ (tdResult[d] # "none" /\ ~Has(d, "join_ok"))
              => logging_executor[d] = "shutdown"

\* C15 (as stated): once teardown() has returned the logging loop has
\* ended.
C15_DrainEndedAfterTeardown ==
    \A d \in Devs :
        tdResult[d] = "returned" => logging_future[d] \in {"done", "error"}

\* C15 (amended): once teardown() has returned without logging a join
\* timeout, the logging loop has ended; after a join timeout it may still
\* be running.
C15_DrainEndedUnlessJoinTimeout ==
    \A d \in Devs :
        (tdResult[d] = "returned" /\ "DrainJoinTimeout" \notin errors[d])
          => /\ logging_future[d] = "done"
             /\ Has(d, "join_ok")
             /\ log_buffer[d] = <<>>

C15_Witness ==
    \E d \in Devs :
        /\ tdResult[d] = "returned"
        /\ "DrainJoinTimeout" \notin errors[d]
        /\ logging_future[d] = "done"
        /\ Proc(d).out > 0

\* C16: the signal socket is bound and the worker spawned only after the
\* check of the signal port succeeded, and for a host-only device after
\* the check of both gRPC ports succeeded too; setup() of an Android
\* device never checks the gRPC ports and never fails because of them.
C16_PortChecksGateSpawn ==
    \A d \in Devs :
        /\ (Has(d, "listen") \/ Spawned(d))
             => /\ Before(d, "signal_port_ok", "listen")
                /\ signal_port(d) \notin busy
                /\ ~serial_number[d]
                     => /\ Before(d, "grpc_ports_ok", "signal_port_ok")
                        /\ grpc_port(d) \notin busy
                        /\ grpc_root_server_port(d) \notin busy
        /\ Spawned(d) => Before(d, "listen", "spawn")
        /\ serial_number[d]
             => /\ ~Has(d, "grpc_ports_ok")
                /\ (startError = "PortUnavailable" /\ configs = <<d>>)
                      => signal_port(d) \in busy

C16_Witness ==
    \E d \in Devs :
        /\ serial_number[d]
        /\ grpc_port(d) \in busy
        /\ Spawned(d) /\ Proc(d).conn = "yes"

\* C18: a mapping whose result is still an error when num_retry is 0 ends
\* setup(): it raises, and the device's worker is never spawned.
C18_MappingExhaustedIsFatal ==
    /\ [](\A d \in Devs :
            (startError = "MappingFailed" /\ configs = <<d>>)
              => /\ ~Spawned(d)
                 /\ ~Has(d, "signal_port_ok")
                 /\ op = "idle" /\ createResult = "raised")
    /\ [][(/\ pc \in {"fw_check", "rv_check"}
           /\ error_or_port = "error" /\ num_retry = 0
           /\ pc' # pc)
            => /\ op' = "idle" /\ createResult' = "raised"
               /\ startError' = "MappingFailed"
               /\ procs' = procs]_vars

C18_Witness ==
    \E d \in Devs :
        /\ startError = "MappingFailed"
        /\ Has(d, "reboot_ok")
        /\ Has(d, "map_ok")
        /\ ~Spawned(d)

\* the pre-flight statements of an Android device's setup() that d has
\* executed, and the order the code gives them
IsMilestone(e) ==
    e \in {"root_ok", "unmapped", "map_ok", "pushed", "signal_port_ok"}
Milestones(d) == SelectSeq(hist[d], IsMilestone)
PreFlight ==
    <<"root_ok", "unmapped", "map_ok", "map_ok", "map_ok",
      "pushed", "pushed", "pushed", "signal_port_ok">>

\* C19: the statements of an Android device's setup() that matter happen
\* in one order only: root ensured, the mappings removed, three mappings
\* made, three files pushed, and then the base setup(); a worker exists
\* only after all of them, and never after a failure of root, mapping or
\* push.
C19_PreFlightBeforeStart ==
    \A d \in Devs :
        serial_number[d]
          => /\ Len(Milestones(d)) <= Len(PreFlight)
             /\ Milestones(d) = SubSeq(PreFlight, 1, Len(Milestones(d)))
             /\ (Has(d, "listen") \/ Spawned(d))
                  => /\ Len(Milestones(d)) = Len(PreFlight)
                     /\ Has(d, "logs_cleared")
             /\ Has(d, "signal_port_ok")
                  => adb[d].files = PushFiles
             /\ (/\ configs = <<d>>
                 /\ startError \in {"RootFailed", "MappingFailed",
                                    "PushFailed"})
                  => ~Spawned(d) /\ ~Has(d, "signal_port_ok")

C19_Witness ==
    \E d \in Devs :
        /\ serial_number[d]
        /\ Spawned(d) /\ Proc(d).conn = "yes"
        /\ Has(d, "reboot_ok")
        /\ adb[d].maps = Mappings

\* C20: reboot() returns only from a poll of sys.boot_completed that read
\* '1', made after the wait for the device to disappear had ended; a poll
\* that raises AdbError leaves the loop running; once no time is left the
\* loop ends in a failure that leaves setup().
C20_RebootReturnsOnBootCompleted ==
    /\ [](pc = "wb_return"
            => /\ rb.completed = "1"
               /\ rb.ended \in {"unreachable", "timeout"})
    /\ [][/\ (pc = "wb_loop" /\ pc' # pc)
             => \/ /\ rb.left > 0
                   /\ rb'.completed = "1" /\ pc' = "wb_return"
                \/ /\ rb.left <= 0
                   /\ op' = "idle" /\ createResult' = "raised"
                   /\ startError' \in {"BootTimeout", "PushFailed"}
          /\ (\E d \in Devs :
                 /\ Len(hist'[d]) > Len(hist[d])
                 /\ hist'[d][Len(hist'[d])] = "reboot_ok")
             => pc = "wb_return"
          /\ (pc = "wb_loop" /\ rb.left <= 0) => pc' # "wb_return"]_vars

C20_Witness ==
    /\ pc = "wb_return"
    /\ rb.ignored > 0
    /\ rb.completed = "1"

\* the statements of teardown() that stop the device
StopSequence ==
    {"channels_closed", "sigint", "sigkill", "join_ok", "join_timeout",
     "join_raised", "executor_shutdown"}

\* C13: a teardown() called on a device that an earlier teardown() has
\* stopped (and that no setup() has started again) closes no channel,
\* sends no signal and joins nothing, and it does not return normally.
C13_TeardownOnStoppedRejected ==
    \A d \in Devs :
        \A i, j \in DOMAIN hist[d] :
            (/\ i < j
             /\ hist[d][i] = "executor_shutdown"
             /\ \A k \in i..j : hist[d][k] # "call_setup")
              => /\ hist[d][j] \notin StopSequence
                 /\ (j = Len(hist[d]) /\ hist[d][j] = "call_teardown"
                     /\ op = "idle")
                      => tdResult[d] = "raised"

LiveWorkers(d) == {p \in ProcsOf(d) : procs[p].alive}

\* C14: of the processes one device has spawned at most one is alive, and
\* it is the one self.backing_process refers to.
C14_OneLiveWorker ==
    \A d \in Devs :
        /\ Cardinality(LiveWorkers(d)) <= 1
        /\ LiveWorkers(d) \subseteq {backing_process[d]}

Count(d, e) == Cardinality({i \in DOMAIN hist[d] : hist[d][i] = e})

\* C17: the signal socket of a device is open only while its setup() is
\* between bind and accept, whichever way setup() ends; so the check of
\* the signal port passes in every later setup() and the socket is bound
\* again.
C17_SignalSocketReleased ==
    /\ [](\A d \in Devs :
            /\ signal_socket[d] = "listening"
                 => InSetup(d) /\ pc \in {"spawn", "probe", "accept"}
            /\ (SetupRuns /\ pc \in {"sig_port", "bind"})
                 => Listening = {})
    /\ [][pc = "sig_port" => pc' \in {"sig_port", "bind"}]_vars

C17_Witness ==
    \E d \in Devs :
        /\ Count(d, "accept") = 2
        /\ Before(d, "executor_shutdown", "call_setup")
        /\ Before(d, "call_setup", "setup_returned")
        /\ signal_socket[d] = "closed"

\* C21: the teardown() of an Android device removes the mappings and pulls
\* the logs only after the base teardown() has released the executor, and
\* an adb command of it that fails neither makes teardown() raise nor
\* keeps the logs from being pulled.
C21_AndroidTeardownBestEffort ==
    \A d \in Devs :
        /\ \A i \in DOMAIN hist[d] :
              hist[d][i] \in {"td_unmapped", "logs_pulled", "td_adb_error"}
                 => \E j \in 1..(i - 1) : hist[d][j] = "executor_shutdown"
        /\ Has(d, "td_adb_error") /\ ~InTeardown(d)
              => tdResult[d] = "returned" /\ Has(d, "logs_pulled")

\* the reboot that is called is the one of ensure_verity_disabled
VerityReboot(p, st) == p = "rb_reboot" /\ Head(st).ret = "ev_remount"

\* what one statement of ensure_verity_disabled may do
VerityStep ==
    /\ pc = "ev_props" /\ pc' # pc
        => /\ pc' = IF adb[Dev].verity # {} THEN "ev_disable"
                                            ELSE "ev_remount"
           /\ hist' = hist
    /\ pc = "ev_disable" /\ pc' # pc
        => /\ hist' = Note(Dev, "disable_verity")
           /\ VerityReboot(pc', stack')
    /\ (\E d \in Devs : hist'[d] = Append(hist[d], "disable_verity"))
        => pc = "ev_disable"
    /\ pc' # pc /\ VerityReboot(pc', stack') => pc = "ev_disable"
    /\ pc' = "ev_remount" /\ pc' # pc
        => \/ pc = "ev_props" /\ adb[Dev].verity = {}
           \/ pc = "wb_return" /\ Head(stack).ret = "ev_remount"
    /\ pc = "ev_remount" /\ pc' # pc
        => hist' = Note(Dev, "remount") /\ pc' = Head(stack).ret

LastCall(d) ==
    CHOOSE i \in DOMAIN hist[d] :
        /\ hist[d][i] = "call_mapping"
        /\ \A j \in DOMAIN hist[d] : hist[d][j] = "call_mapping" => j <= i
SinceCall(d) == SubSeq(hist[d], LastCall(d) + 1, Len(hist[d]))
IsTry(e) == e \in {"map_attempt", "reboot"}
Tries(d) == SelectSeq(SinceCall(d), IsTry)
Attempts(d) ==
    Cardinality({k \in DOMAIN Tries(d) : Tries(d)[k] = "map_attempt"})
Reboots(d) ==
    Cardinality({k \in DOMAIN Tries(d) : Tries(d)[k] = "reboot"})

\* attempts and reboots alternate, an attempt first; there are at most
\* budget + 1 attempts and budget reboots; nothing follows a success but
\* the return
RetryBudgetKept ==
    cur # 0 /\ Has(Dev, "call_mapping")
        => /\ \A k \in DOMAIN Tries(Dev) :
                 Tries(Dev)[k] = IF k % 2 = 1 THEN "map_attempt" ELSE "reboot"
           /\ Attempts(Dev) <= budget + 1
           /\ Reboots(Dev) <= budget
           /\ \A i \in DOMAIN SinceCall(Dev) :
                 SinceCall(Dev)[i] = "map_ok"
                    => \A j \in DOMAIN SinceCall(Dev) :
                          j > i => SinceCall(Dev)[j] = "mapping_returned"

\* the method ends by returning after a result that is a port or empty,
\* or by raising
MappingEnds ==
    /\ op = "mapping" /\ pc' = "map_done" /\ pc # "map_done"
        => /\ error_or_port \in {"", "port"}
           /\ hist' = Note(Dev, "map_ok")
    /\ op = "mapping" /\ op' = "idle"
        => \/ pc = "map_done"
           \/ startError' \in {"MappingFailed", "BootTimeout", "AdbError"}

\* C23: a call of tcp_forward_or_die or tcp_reverse_or_die with
\* num_retry = n makes at most n + 1 attempts and n reboots, one reboot
\* between two attempts and none after an attempt that succeeded, and it
\* ends: it returns a port or it raises.
C23_RetryBudget ==
    /\ []RetryBudgetKept
    /\ [][MappingEnds]_vars
    /\ (op = "mapping") ~> (op = "idle")

\* a call with the largest budget used all of it and then got its port
C23_Witness ==
    /\ cur # 0 /\ op = "idle"
    /\ budget = MaxRetry
    /\ Attempts(Dev) = MaxRetry + 1 /\ Reboots(Dev) = MaxRetry
    /\ Has(Dev, "mapping_returned")

\* the signal teardown() sent last, and whether the exit it observed is
\* a regular one: status 0 or death by that signal (no exit is observed
\* when the second wait timed out)
LastSignal(d) == IF Has(d, "sigkill") THEN SIGKILL ELSE SIGINT
RegularExit(d) ==
    /\ ~Has(d, "wait2_timeout")
    /\ Proc(d).code \in {0, -LastSignal(d)}

\* the comparison of the status raises nothing and leads to the join
CheckLeadsToJoin ==
    pc = "td_check" => pc' \in {"td_check", "td_join"} /\ tdResult' = tdResult

\* C24: once teardown() has compared the exit status, AnomalousExit is
\* logged exactly when the exit was not a regular one; the comparison
\* itself never ends teardown(), which goes on to the join of the logging
\* future and, unless that join raises, to the shutdown of the executor.
C24_AnomalousExitIsWarning ==
    /\ [](\A d \in Devs :
            PastCheck(d)
              => /\ "AnomalousExit" \in errors[d] <=> ~RegularExit(d)
                 /\ tdResult[d] = "raised" => Has(d, "join_raised")
                 /\ tdResult[d] = "returned"
                       => logging_executor[d] = "shutdown")
    /\ [][CheckLeadsToJoin]_vars

\* the worker died from the interrupt after teardown() had given up
\* waiting and sent the kill: the exit is anomalous, teardown() returned
C24_Witness ==
    \E d \in Devs :
        /\ Has(d, "sigkill") /\ Proc(d).code = -SIGINT
        /\ "AnomalousExit" \in errors[d]
        /\ tdResult[d] = "returned"

\* process p cannot go on: it has more to print before it connects and
\* the pipe is full
BlockedOnPipe(p) ==
    /\ procs[p].alive /\ procs[p].conn = "no"
    /\ procs[p].out < procs[p].pre
    /\ procs[p].out - procs[p].rd >= PipeCap

\* C25: while setup() waits in accept() its backing process is never
\* blocked on a full output pipe, however much it prints before it
\* connects.
C25_NoOutputDeadlock ==
    \A d \in Devs :
        InSetup(d) /\ pc = "accept" => ~BlockedOnPipe(backing_process[d])

\* teardown() of the i-th device of the list has been called and has
\* ended; how often it was called (its first statement closes the channel)
TornDown(i) == destroyed \/ (op = "destroy" /\ i < cur)
Teardowns(d) == Count(d, "channels_closed")

\* destroy() leaves its loop only after the last device
DestroyEndsAfterLast ==
    op = "destroy" /\ op' # "destroy"
        => op' = "idle" /\ destroyed' /\ cur = Len(devices)

\* C26: destroy() calls teardown() on the devices one after the other in
\* the order of the list, once each: while it runs, the devices before
\* the current one have had their teardown() (returned or raised, and
\* logged when raised) and those after it have not; it ends only after
\* the last one, whatever any teardown() raised.
C26_DestroyTearsDownAll ==
    /\ [](\A i \in DOMAIN devices :
            /\ Teardowns(devices[i]) <= 1
            /\ TornDown(i)
                  => /\ Teardowns(devices[i]) = 1
                     /\ tdResult[devices[i]] \in {"returned", "raised"}
                     /\ tdResult[devices[i]] = "raised"
                           => "CleanupFailed" \in errors[devices[i]]
            /\ ~destroyed /\ (op = "destroy" => i > cur)
                  => /\ Teardowns(devices[i]) = 0
                     /\ tdResult[devices[i]] = "none")
    /\ [][DestroyEndsAfterLast]_vars

\* the teardown() of the first device raised and the second device was
\* torn down all the same
C26_Witness ==
    /\ destroyed /\ Len(devices) = NumDevices
    /\ tdResult[devices[1]] = "raised"
    /\ tdResult[devices[NumDevices]] = "returned"
    /\ Teardowns(devices[NumDevices]) = 1
====
